---- MODULE Spec2Model ----
(***************************************************************************)
(* A model of evry (seanbreckenridge/evry): the duration parser            *)
(* (src/parser.rs), the tag file (src/file.rs) and the scheduling decision *)
(* of evry() (src/main.rs).                                                *)
(*                                                                         *)
(* Every time and duration of the program is a Rust u128.  TLC's integers  *)
(* are 32 bits wide, so a u128 is held here as a natural number written in *)
(* base 2^8, least significant digit first and without leading zeros       *)
(* (0 is <<>>, 1000 is <<232, 3>>); equal numbers are equal sequences.     *)
(* The arithmetic below is exact, and the u128 operators on top of it keep *)
(* the width: a result that needs more than 128 bits either panics (a      *)
(* build with overflow checks, cargo's dev profile) or wraps modulo 2^128  *)
(* (a build without them, cargo's release profile).                        *)
(***************************************************************************)
EXTENDS Integers, Sequences, FiniteSets, TLC

\* ------------------------------------------------------------------------
\* Exact natural-number arithmetic on digit sequences
\* ------------------------------------------------------------------------

\* the digit base, 2^8: sixteen digits make a u128
LimbBase == 2 ^ 8

\* the number of base-2^8 digits of a u128
U128Limbs == 128 \div 8

RECURSIVE Used(_, _)
\* the number of digits of s[1..n] up to its last non-zero one
Used(s, n) ==
    IF n = 0 THEN 0
    ELSE IF s[n] # 0 THEN n
    ELSE Used(s, n - 1)

\* drop the leading (most significant, last) zero digits
Norm(s) == SubSeq(s, 1, Used(s, Len(s)))

RECURSIVE Big(_)
\* the digit sequence of a natural number small enough for TLC
Big(n) ==
    IF n = 0 THEN <<>>
    ELSE <<n % LimbBase>> \o Big(n \div LimbBase)

\* digit i of s, 0 beyond its length
Limb(s, i) == IF i >= 1 /\ i <= Len(s) THEN s[i] ELSE 0

MaxOf(a, b) == IF a >= b THEN a ELSE b

RECURSIVE Carry(_, _, _, _)
\* the digits of a number given as its n column sums, carrying from column
\* i up
Carry(cols, n, i, carry) ==
    IF i > n THEN <<>>
    ELSE LET t == cols[i] + carry
         IN  <<t % LimbBase>> \o Carry(cols, n, i + 1, t \div LimbBase)

\* a + b
BigAdd(a, b) ==
    LET n == MaxOf(Len(a), Len(b)) + 1
    IN  Norm(Carry([i \in 1..n |-> Limb(a, i) + Limb(b, i)], n, 1, 0))

RECURSIVE LtFrom(_, _, _)
LtFrom(a, b, i) ==
    IF i = 0 THEN FALSE
    ELSE IF a[i] # b[i] THEN a[i] < b[i]
    ELSE LtFrom(a, b, i - 1)

\* a < b
BigLt(a, b) ==
    IF Len(a) # Len(b) THEN Len(a) < Len(b)
    ELSE LtFrom(a, b, Len(a))

\* a <= b
BigLe(a, b) == ~BigLt(b, a)

RECURSIVE Borrow(_, _, _, _)
\* the digits of a difference given as its n column differences
Borrow(cols, n, i, borrow) ==
    IF i > n THEN <<>>
    ELSE LET t == cols[i] - borrow
         IN  IF t < 0
             THEN <<t + LimbBase>> \o Borrow(cols, n, i + 1, 1)
             ELSE <<t>> \o Borrow(cols, n, i + 1, 0)

\* a - b, for a >= b
BigSub(a, b) ==
    Norm(Borrow([i \in 1..Len(a) |-> a[i] - Limb(b, i)], Len(a), 1, 0))

MinOf(a, b) == IF a <= b THEN a ELSE b

RECURSIVE Column(_, _, _, _, _)
\* the sum of a[j] * b[k + 1 - j] for j from i to hi
Column(a, b, k, i, hi) ==
    IF i > hi THEN 0
    ELSE a[i] * b[k + 1 - i] + Column(a, b, k, i + 1, hi)

\* a * b: column k sums the products of the digits whose places add up to k
BigMul(a, b) ==
    LET n == Len(a) + Len(b)
    IN  Norm(Carry([k \in 1..n |->
                      Column(a, b, k, MaxOf(1, k + 1 - Len(b)), MinOf(Len(a), k))],
                   n, 1, 0))

RECURSIVE DivSmallFrom(_, _, _, _)
\* long division by a small d, from the most significant digit down
DivSmallFrom(a, d, i, rem) ==
    IF i = 0 THEN <<>>
    ELSE LET t == rem * LimbBase + a[i]
         IN  DivSmallFrom(a, d, i - 1, t % d) \o <<t \div d>>

\* a \div d, for a small positive d
BigDivSmall(a, d) == Norm(DivSmallFrom(a, d, Len(a), 0))

RECURSIVE Zeros(_)
Zeros(n) == IF n = 0 THEN <<>> ELSE <<0>> \o Zeros(n - 1)

RECURSIVE Ones(_)
Ones(n) == IF n = 0 THEN <<>> ELSE <<LimbBase - 1>> \o Ones(n - 1)

\* 2^128
Pow2_128 == Zeros(U128Limbs) \o <<1>>

\* u128::MAX = 2^128 - 1
U128_MAX == Ones(U128Limbs)

\* whether a natural number is a u128
Fits128(a) == Len(a) <= U128Limbs

\* a modulo 2^128
Wrap128(a) ==
    IF Fits128(a) THEN a ELSE Norm(SubSeq(a, 1, U128Limbs))

RECURSIVE RemSmallFrom(_, _, _, _)
RemSmallFrom(a, d, i, rem) ==
    IF i = 0 THEN rem
    ELSE RemSmallFrom(a, d, i - 1, (rem * LimbBase + a[i]) % d)

\* a % d, for a small positive d
BigRemSmall(a, d) == RemSmallFrom(a, d, Len(a), 0)

\* ------------------------------------------------------------------------
\* Rust's u128 arithmetic.  A result is [panic, val]: with overflow checks
\* (checks = TRUE) an out-of-range result panics, without them it wraps.
\* ------------------------------------------------------------------------

Value(v) == [panic |-> FALSE, val |-> v]

Panicked == [panic |-> TRUE, val |-> <<>>]

\* a + b on u128
u128_add(a, b, checks) ==
    LET exact == BigAdd(a, b)
    IN  IF Fits128(exact) THEN Value(exact)
        ELSE IF checks THEN Panicked
        ELSE Value(Wrap128(exact))

\* a - b on u128
u128_sub(a, b, checks) ==
    IF BigLe(b, a) THEN Value(BigSub(a, b))
    ELSE IF checks THEN Panicked
    ELSE Value(BigSub(BigAdd(Pow2_128, a), b))

\* a * b on u128
u128_mul(a, b, checks) ==
    LET exact == BigMul(a, b)
    IN  IF Fits128(exact) THEN Value(exact)
        ELSE IF checks THEN Panicked
        ELSE Value(Wrap128(exact))

\* ------------------------------------------------------------------------
\* Decimal text of a u128: what write!("{}", n) produces and what
\* str::parse::<u128>() reads.  A text is a sequence of decimal digits, most
\* significant first.
\* ------------------------------------------------------------------------

RECURSIVE format_digits(_)
format_digits(v) ==
    IF v = <<>> THEN <<>>
    ELSE format_digits(BigDivSmall(v, 10)) \o <<BigRemSmall(v, 10)>>

\* format!("{}", v)
format_u128(v) == IF v = <<>> THEN <<0>> ELSE format_digits(v)

RECURSIVE parse_digits(_, _, _)
\* result * 10 + digit, each step checked (checked_mul, checked_add)
parse_digits(text, i, result) ==
    IF i > Len(text) THEN Value(result)
    ELSE LET next == BigAdd(BigMul(result, Big(10)), Big(text[i]))
         IN  IF Fits128(next) THEN parse_digits(text, i + 1, next)
             ELSE Panicked

\* text.parse::<u128>() followed by expect(): the number, or a panic when
\* the text is empty or the number does not fit
str_parse_u128(text) ==
    IF text = <<>> THEN Panicked ELSE parse_digits(text, 1, <<>>)

\* ------------------------------------------------------------------------
\* src/parser.rs: the duration parser
\* ------------------------------------------------------------------------

YEAR_MILLIS == BigMul(Big(31556952), Big(1000))

MONTH_MILLIS == BigMul(Big(2592000), Big(1000))

WEEK_MILLIS == Big(604800000)

DAY_MILLIS == Big(86400000)

HOUR_MILLIS == Big(3600000)

MINUTE_MILLIS == Big(60000)

SECOND_MILLIS == Big(1000)

\* A duration text is held as its tokens: a numeral (its decimal digits,
\* most significant first, of any length), a word, or anything else.
Num(digits) == [kind |-> "num", val |-> digits, word |-> ""]

Word(w) == [kind |-> "word", val |-> <<>>, word |-> w]

Junk == [kind |-> "junk", val |-> <<>>, word |-> ""]

\* the unit spellings of the grammar and the singular rule each one belongs to
Rule_singular(word) ==
    CASE word \in {"year", "years"} -> "year"
      [] word \in {"month", "months"} -> "month"
      [] word \in {"week", "weeks", "wk", "wks"} -> "week"
      [] word \in {"day", "days", "d"} -> "day"
      [] word \in {"hour", "hours", "hr", "hrs"} -> "hour"
      [] word \in {"minute", "minutes", "min", "mins"} -> "minute"
      [] word \in {"second", "seconds", "sec", "secs"} -> "second"
      [] OTHER -> "none"

\* TimeParser::parse(Rule::file, text): one or more <quantity> <unit> terms
\* and nothing else
TimeParser_parse_file(text) ==
    /\ Len(text) > 0
    /\ Len(text) % 2 = 0
    /\ \A i \in 1..Len(text) :
          IF i % 2 = 1
          THEN text[i].kind = "num"
          ELSE text[i].kind = "word" /\ Rule_singular(text[i].word) # "none"

\* the match on the unit's rule
unit_millis_of(rule) ==
    CASE rule = "year" -> YEAR_MILLIS
      [] rule = "month" -> MONTH_MILLIS
      [] rule = "week" -> WEEK_MILLIS
      [] rule = "day" -> DAY_MILLIS
      [] rule = "hour" -> HOUR_MILLIS
      [] rule = "minute" -> MINUTE_MILLIS
      [] rule = "second" -> SECOND_MILLIS

\* .parse().expect(..) on the quantity's digits: a panic in every build
\* when the number is no u128
quantity_of(numeral) == str_parse_u128(numeral.val)

\* A faulty variant: = in place of +=
accumulate_overwrite(total_millis, unit_millis, quantity, checks) ==
    u128_mul(unit_millis, quantity, checks)

\* total_millis += unit_millis * quantity
accumulate(total_millis, unit_millis, quantity, checks) ==
    LET product == u128_mul(unit_millis, quantity, checks)
    IN  IF product.panic THEN Panicked
        ELSE u128_add(total_millis, product.val, checks)

RECURSIVE durations_loop(_, _, _, _)
\* the loop over the terms, from term i on
durations_loop(text, i, total_millis, checks) ==
    IF 2 * i > Len(text) THEN Value(total_millis)
    ELSE LET quantity == quantity_of(text[2 * i - 1])
             unit_millis == unit_millis_of(Rule_singular(text[2 * i].word))
         IN  IF quantity.panic THEN Panicked
             ELSE LET sum == accumulate(total_millis, unit_millis, quantity.val, checks)
                  IN  IF sum.panic THEN Panicked
                      ELSE durations_loop(text, i + 1, sum.val, checks)

\* parse_time: Ok(total), Err (the text is not of the grammar), or a panic
parse_time(unparsed_input, checks) ==
    IF ~TimeParser_parse_file(unparsed_input)
    THEN [status |-> "Err", val |-> <<>>]
    ELSE LET total == durations_loop(unparsed_input, 1, <<>>, checks)
         IN  IF total.panic THEN [status |-> "panic", val |-> <<>>]
             ELSE [status |-> "Ok", val |-> total.val]

\* ------------------------------------------------------------------------
\* src/file.rs: the tag file.  A file is [exists, text]; the text of a tag
\* file is the decimal text of the time of the last permitted run.
\* ------------------------------------------------------------------------

NoFile == [exists |-> FALSE, text |-> <<>>]

\* A faulty variant: the data directory is tested instead of the tag file
file_always_exists(file) == TRUE

\* Tag::file_exists
file_exists(file) == file.exists

\* A faulty variant: an unread tag file counts as a run at time 0
read_as_zero(file) == Value(<<>>)

\* Tag::read_epoch_millis: read_to_string, parse, expect
read_epoch_millis(file) == str_parse_u128(file.text)

\* A faulty variant: the start of the epoch is written
Tag_write_epoch(file, time) == [exists |-> TRUE, text |-> format_u128(<<>>)]

\* Tag::write: File::create, then write!("{}", time)
Tag_write(file, time) == [exists |-> TRUE, text |-> format_u128(time)]

\* ------------------------------------------------------------------------
\* src/main.rs: evry()
\* ------------------------------------------------------------------------

\* the process exit statuses
EXIT_RUN == 0

EXIT_PARSE_ERROR == 1

EXIT_WAIT == 2

\* the status of a process that panicked (Rust's runtime)
EXIT_PANIC == 101

\* What one invocation did: its exit status, its outcome, the tag file it
\* leaves, the calls it made on its collaborators in order, the parsed
\* duration, the time it read, and the remaining time it reported.
Ret(code, outcome, file, calls, run_every, now, till_next, printed) ==
    [code |-> code, outcome |-> outcome, file |-> file, calls |-> calls,
     run_every |-> run_every, now |-> now, till_next |-> till_next,
     printed |-> printed]

\* A faulty variant: the duration never counts as elapsed
never_elapsed(now, last_ran_at, run_every, checks) ==
    [panic |-> FALSE, val |-> FALSE]

\* A faulty variant: >= in place of >
has_elapsed_or_equal(now, last_ran_at, run_every, checks) ==
    LET since == u128_sub(now, last_ran_at, checks)
    IN  IF since.panic THEN [panic |-> TRUE, val |-> FALSE]
        ELSE [panic |-> FALSE, val |-> BigLe(run_every, since.val)]

\* now - last_ran_at > run_every
has_elapsed(now, last_ran_at, run_every, checks) ==
    LET since == u128_sub(now, last_ran_at, checks)
    IN  IF since.panic THEN [panic |-> TRUE, val |-> FALSE]
        ELSE [panic |-> FALSE, val |-> BigLt(run_every, since.val)]

\* A faulty variant: the time since the last run is not taken off
till_next_whole(now, last_ran_at, run_every, checks) == Value(run_every)

\* last_ran_at + run_every - now
till_next_run(now, last_ran_at, run_every, checks) ==
    LET next_at == u128_add(last_ran_at, run_every, checks)
    IN  IF next_at.panic THEN Panicked
        ELSE u128_sub(next_at.val, now, checks)

\* A faulty variant: the write is left out
save_nothing(file, now) == file

\* the tag file after a permitted run: the current time is saved to it
save_current_time(file, now) == Tag_write(file, now)

\* A faulty variant: the current time is saved on every run
touch_tag_file(file, now) == Tag_write(file, now)

\* the tag file after a run that is not permitted: nothing is written
keep_tag_file(file, now) == file

\* evry() from "get current time" on: the scheduling decision of a run
decide(cli, file, clk, run_every, checks) ==
    LET now == clk
        parsed == <<"parse_time", "epoch_millis", "file_exists">>
    IN  IF ~file_exists(file)
        THEN Ret(EXIT_RUN, "FirstRun", save_current_time(file, now),
                 parsed \o <<"write">>, run_every, now, <<>>, "none")
        ELSE
        LET last_ran_at == read_epoch_millis(file)
            read == parsed \o <<"read_epoch_millis">>
        IN  IF last_ran_at.panic
            THEN Ret(EXIT_PANIC, "Panic", file, read, run_every, now, <<>>, "none")
            ELSE
            LET elapsed == has_elapsed(now, last_ran_at.val, run_every, checks)
            IN  IF elapsed.panic
                THEN Ret(EXIT_PANIC, "Panic", file, read, run_every, now, <<>>, "none")
                ELSE IF elapsed.val
                THEN Ret(EXIT_RUN, "Elapsed", save_current_time(file, now),
                         read \o <<"write">>, run_every, now, <<>>, "none")
                ELSE IF ~cli.debug
                THEN Ret(EXIT_WAIT, "NotElapsed", keep_tag_file(file, now), read,
                         run_every, now, <<>>, "none")
                ELSE
                LET till_next == till_next_run(now, last_ran_at.val, run_every, checks)
                IN  IF till_next.panic
                    THEN Ret(EXIT_PANIC, "Panic", file, read, run_every, now,
                             <<>>, "none")
                    ELSE Ret(EXIT_WAIT, "NotElapsed", keep_tag_file(file, now), read,
                             run_every, now, till_next.val, "till_next")

\* A faulty variant: a parse failure exits like a run that has to wait
parse_failure_as_wait == EXIT_WAIT

\* the exit status of a duration text that parse_time rejects
parse_failure_code == EXIT_PARSE_ERROR

\* A faulty variant: the early return of the duration command is missing
never_duration_command(cli) == FALSE

\* matches!(cli.command, Command::Duration)
is_duration_command(cli) == cli.command = "Duration"

\* matches!(cli.command, Command::Location)
is_location_command(cli) == cli.command = "Location"

\* evry(): cli is the parsed command line, file the tag file, clk what the
\* system clock would answer, checks whether the build checks overflow
evry(cli, file, clk, checks) ==
    IF is_location_command(cli)
    THEN Ret(EXIT_RUN, "Location", file, <<>>, <<>>, <<>>, <<>>, "tag_path")
    ELSE
    LET run_every == parse_time(cli.raw_date, checks)
    IN  IF run_every.status = "panic"
        THEN Ret(EXIT_PANIC, "Panic", file, <<"parse_time">>, <<>>, <<>>, <<>>, "none")
        ELSE IF run_every.status = "Err"
        THEN Ret(parse_failure_code, "ParseError", file, <<"parse_time">>,
                 <<>>, <<>>, <<>>, "error")
        ELSE IF is_duration_command(cli)
        THEN Ret(EXIT_RUN, "Duration", file, <<"parse_time">>, run_every.val,
                 <<>>, <<>>, "duration")
        ELSE decide(cli, file, clk, run_every.val, checks)

\* ------------------------------------------------------------------------
\* The state: one tag's file, the system clock, the build of the binary,
\* the invocation that has just exited, and the time of the last permitted
\* run.  (The line evry appends to $EVRY_PARSE_ERROR_LOG on a parse failure
\* is not part of the state: no operation reads it back.)
\* ------------------------------------------------------------------------

VARIABLES tag_file, clock, overflow_checks, last, permitted_at

\* for parse_time on its own: the text given to it and what it returned
VARIABLES parse_input, parse_output

\* for two invocations at once: where each process is and what it holds,
\* and what has been done to the tag file since they started
VARIABLES proc, race

\* for the Printer on its own: the printer, what it has sent to stderr and
\* stdout, and the calls made on it
VARIABLES printer

\* for evry called over and over by a shell loop: the command line of the
\* loop, whether the loop is about to call evry or asleep, and whether a
\* call has had to wait since the last permitted run
VARIABLES loop

vars == <<tag_file, clock, overflow_checks, last, permitted_at,
          parse_input, parse_output, proc, race, printer, loop>>

\* the longest duration of the texts tried, and the latest second of the clock
MaxSeconds == 2

\* the clock's values: each whole second and the millisecond after it
ClockMillis == {s * 1000 + j : s \in 0..MaxSeconds, j \in {0, 1}}

ClockValues == {Big(m) : m \in ClockMillis}

Dec(n) == format_u128(Big(n))

\* duration texts: "<s> sec", "1 sec, <s> seconds", a text with no
\* quantity, and 10^29 - 1 years, whose milliseconds are no u128
GoodTexts ==
    {<<Num(Dec(s)), Word("sec")>> : s \in 0..MaxSeconds}
    \cup {<<Num(Dec(1)), Word("sec"), Num(Dec(s)), Word("seconds")>> :
             s \in 1..(MaxSeconds - 1)}

BadTexts == {<<Word("weeks")>>}

HugeTexts ==
    {<<Num(<<9, 9, 9, 9, 9, 9, 9, 9, 9, 9, 9, 9, 9, 9, 9, 9, 9, 9, 9, 9,
             9, 9, 9, 9, 9, 9, 9, 9, 9>>), Word("years")>>}

Texts == GoodTexts \cup BadTexts

\* Args: a run or a duration command has a non-empty duration text, a
\* location command any text
Clis ==
    {[command |-> c, raw_date |-> t, debug |-> d] :
        c \in {"Run", "Duration"}, t \in Texts, d \in BOOLEAN}
    \cup {[command |-> c, raw_date |-> t, debug |-> FALSE] :
        c \in {"Run", "Duration"}, t \in HugeTexts}
    \cup {[command |-> "Location", raw_date |-> t, debug |-> d] :
        t \in {<<>>} \cup BadTexts, d \in BOOLEAN}

NoCall ==
    [cli |-> [command |-> "None", raw_date |-> <<>>, debug |-> FALSE],
     before |-> NoFile, clock |-> <<>>,
     ret |-> Ret(EXIT_RUN, "None", NoFile, <<>>, <<>>, <<>>, <<>>, "none")]

Never == [some |-> FALSE, now |-> <<>>]

NotParsed == [status |-> "none", val |-> <<>>]

\* a process that has not been started
NotStarted ==
    [pc |-> "main", cli |-> [command |-> "None", raw_date |-> <<>>, debug |-> FALSE],
     run_every |-> <<>>, now |-> <<>>, early |-> FALSE, code |-> EXIT_RUN]

Processes == {1, 2}

NoProcesses == [p \in Processes |-> NotStarted]

NoRace == [before |-> NoFile, touched |-> FALSE, written |-> <<>>]

\* no shell loop is running
NoLoop ==
    [cli |-> [command |-> "None", raw_date |-> <<>>, debug |-> FALSE],
     phase |-> "none", waited |-> FALSE, after_wait |-> FALSE]

\* Printer::new(printer_type), with nothing printed yet
Printer_new(printer_type) ==
    [printer_type |-> printer_type, messages |-> <<>>,
     stderr |-> <<>>, stdout |-> <<>>, calls |-> <<>>]

NoPrinter == Printer_new("None")

Init ==
    /\ tag_file = NoFile
    /\ clock \in ClockValues
    /\ overflow_checks \in BOOLEAN
    /\ last = NoCall
    /\ permitted_at = Never
    /\ parse_input = <<>>
    /\ parse_output = NotParsed
    /\ proc = NoProcesses
    /\ printer = NoPrinter
    /\ loop = NoLoop
    /\ race = NoRace

\* the time of the last permitted run, after an invocation
Remember(at, ret) ==
    IF ret.code = EXIT_RUN /\ ret.outcome \in {"FirstRun", "Elapsed"}
    THEN [some |-> TRUE, now |-> ret.now]
    ELSE at

\* one invocation of evry, from main() to exit
Invoke ==
    \E cli \in Clis :
        \E ret \in {evry(cli, tag_file, clock, overflow_checks)} :
            /\ tag_file' = ret.file
            /\ last' = [cli |-> cli, before |-> tag_file, clock |-> clock,
                        ret |-> ret]
            /\ permitted_at' = Remember(permitted_at, ret)
            /\ UNCHANGED <<clock, overflow_checks, parse_input, parse_output, proc, race, printer, loop>>

\* time passes; the invocation that exited is no longer the last thing
\* that happened
Tick ==
    /\ \E c \in ClockValues : BigLt(clock, c) /\ clock' = c
    /\ last' = NoCall
    /\ UNCHANGED <<tag_file, overflow_checks, permitted_at,
                   parse_input, parse_output, proc, race, printer, loop>>

\* the system clock is set back
ClockBack ==
    /\ \E c \in ClockValues : BigLt(c, clock) /\ clock' = c
    /\ last' = NoCall
    /\ UNCHANGED <<tag_file, overflow_checks, permitted_at,
                   parse_input, parse_output, proc, race, printer, loop>>

Next == Invoke \/ Tick \/ ClockBack

\* sequential invocations, the clock free to move either way
Spec == Init /\ [][Next]_vars

NextForward == Invoke \/ Tick

\* sequential invocations under a clock that never goes back
SpecForward == Init /\ [][NextForward]_vars

\* ------------------------------------------------------------------------
\* The loop of the crate's documentation,
\*     while true; do evry <duration> -tag && run command; sleep 60; done
\* one tag, one duration text that parses, and a clock that has moved on
\* whenever evry is called again.
\* ------------------------------------------------------------------------

LoopClis ==
    {[command |-> "Run", raw_date |-> t, debug |-> d] :
        t \in GoodTexts, d \in BOOLEAN}

InitLoop ==
    /\ tag_file = NoFile
    /\ clock \in ClockValues
    /\ overflow_checks \in BOOLEAN
    /\ last = NoCall
    /\ permitted_at = Never
    /\ parse_input = <<>>
    /\ parse_output = NotParsed
    /\ proc = NoProcesses
    /\ race = NoRace
    /\ printer = NoPrinter
    /\ \E cli \in LoopClis :
          loop = [cli |-> cli, phase |-> "evry", waited |-> FALSE,
                  after_wait |-> FALSE]

\* evry <duration> -tag, called by the loop
LoopInvoke ==
    /\ loop.phase = "evry"
    /\ \E ret \in {evry(loop.cli, tag_file, clock, overflow_checks)} :
          /\ tag_file' = ret.file
          /\ last' = [cli |-> loop.cli, before |-> tag_file, clock |-> clock,
                      ret |-> ret]
          /\ permitted_at' = Remember(permitted_at, ret)
          /\ loop' = [loop EXCEPT
                        !.phase = "sleep",
                        !.waited = IF ret.code = EXIT_RUN THEN FALSE
                                   ELSE IF ret.code = EXIT_WAIT THEN TRUE
                                   ELSE @,
                        !.after_wait = ret.code = EXIT_RUN /\ loop.waited]
    /\ UNCHANGED <<clock, overflow_checks, parse_input, parse_output,
                   proc, race, printer>>

\* sleep 60: the clock has moved on when the loop comes round
LoopSleep ==
    /\ loop.phase = "sleep"
    /\ \E c \in ClockValues : BigLt(clock, c) /\ clock' = c
    /\ loop' = [loop EXCEPT !.phase = "evry"]
    /\ UNCHANGED <<tag_file, overflow_checks, last, permitted_at,
                   parse_input, parse_output, proc, race, printer>>

NextLoop == LoopInvoke \/ LoopSleep

\* The loop never stops: its sleep ends while the clock can move on, and a
\* call of evry returns.  (evry can be called whenever the loop is about to
\* call it, and the call ends that phase, so that weak fairness of
\* LoopInvoke is the loop being, again and again, not about to call.)
SpecLoop ==
    /\ InitLoop /\ [][NextLoop]_vars
    /\ WF_vars(LoopSleep)
    /\ []<>(loop.phase # "evry")

\* ------------------------------------------------------------------------
\* src/printer.rs: a Printer and the calls on it
\* ------------------------------------------------------------------------

PrinterTypes == {"Stderr", "Json"}

\* Option<PrinterType>
None == "None"

Some(ptype) == ptype

\* Message::new
Message_new(type, body) == [type |-> type, body |-> body]

\* Message::intersperse
intersperse(message, delim) == <<message.type, delim, message.body>>

\* A faulty variant: the filter is ignored
allowed_always(printer_type, only) == TRUE

\* let allowed = match only { Some(ptype) => self.printer_type == ptype,
\*                            None => true }
allowed(printer_type, only) ==
    IF only = None THEN TRUE ELSE printer_type = only

\* Printer::print
Printer_print(self, message, only) ==
    IF allowed(self.printer_type, only)
    THEN IF self.printer_type = "Stderr"
         THEN [self EXCEPT !.stderr = Append(@, intersperse(message, ":"))]
         ELSE [self EXCEPT !.messages = Append(@, message)]
    ELSE self

\* Printer::echo
Printer_echo(self, type, body) ==
    Printer_print(self, Message_new(type, body), None)

\* Printer::serialize: a JSON array with one object for each message, its
\* members in the order of the struct's fields
serialize(self) ==
    [i \in 1..Len(self.messages) |->
        <<<<"type", self.messages[i].type>>, <<"body", self.messages[i].body>>>>]

\* Printer::flush
Printer_flush(self) ==
    IF self.printer_type = "Json"
    THEN [self EXCEPT !.stdout = Append(@, serialize(self))]
    ELSE self

\* the longest sequence of calls made on a printer
MaxCalls == 4

MessageTypes == {"log", "status"}

MessageBodies == {"text"}

InitPrinter ==
    /\ tag_file = NoFile
    /\ clock = <<>>
    /\ overflow_checks = FALSE
    /\ last = NoCall
    /\ permitted_at = Never
    /\ parse_input = <<>>
    /\ parse_output = NotParsed
    /\ proc = NoProcesses
    /\ race = NoRace
    /\ \E printer_type \in PrinterTypes : printer = Printer_new(printer_type)
    /\ loop = NoLoop

\* the call is added to the calls made
Called(self, message, only) ==
    [self EXCEPT !.calls = Append(@, [message |-> message, only |-> only])]

\* p.print(message, only)
PrinterPrint ==
    /\ Len(printer.calls) < MaxCalls
    /\ printer.stdout = <<>>
    /\ \E type \in MessageTypes, body \in MessageBodies,
          only \in {None} \cup {Some(ptype) : ptype \in PrinterTypes} :
          printer' = Called(Printer_print(printer, Message_new(type, body), only),
                            Message_new(type, body), only)
    /\ UNCHANGED <<tag_file, clock, overflow_checks, last, permitted_at,
                   parse_input, parse_output, proc, race, loop>>

\* p.echo(type, body)
PrinterEcho ==
    /\ Len(printer.calls) < MaxCalls
    /\ printer.stdout = <<>>
    /\ \E type \in MessageTypes, body \in MessageBodies :
          printer' = Called(Printer_echo(printer, type, body),
                            Message_new(type, body), None)
    /\ UNCHANGED <<tag_file, clock, overflow_checks, last, permitted_at,
                   parse_input, parse_output, proc, race, loop>>

\* p.flush(), the last call main() makes on the printer
PrinterFlush ==
    /\ printer.stdout = <<>>
    /\ printer' = Printer_flush(printer)
    /\ UNCHANGED <<tag_file, clock, overflow_checks, last, permitted_at,
                   parse_input, parse_output, proc, race, loop>>

NextPrinter == PrinterPrint \/ PrinterEcho \/ PrinterFlush

SpecPrinter == InitPrinter /\ [][NextPrinter]_vars

\* ------------------------------------------------------------------------
\* Two invocations of evry on one tag at the same time.  Each process goes
\* through evry() call by call; what a call does to the tag file or reads
\* from it or from the clock is one step, and the steps of the two processes
\* interleave.  Tag::write is two steps: File::create empties the file, and
\* the buffered text reaches it, from its first byte on, when the writer is
\* dropped.
\* ------------------------------------------------------------------------

\* the clock's values, from the first second on: they are of one length in
\* decimal digits, as the milliseconds since the epoch are from 2001 to 2286
RaceClock == {BigAdd(c, Big(1000)) : c \in ClockValues}

RaceTexts == {<<Num(Dec(1)), Word("sec")>>} \cup BadTexts

RaceClis ==
    {[command |-> "Run", raw_date |-> t, debug |-> d] :
        t \in RaceTexts, d \in BOOLEAN}

\* the tag is absent, or holds the time of a run at the clock's first value
InitRace ==
    /\ tag_file \in {NoFile, Tag_write(NoFile, Big(1000))}
    /\ clock \in RaceClock
    /\ overflow_checks \in BOOLEAN
    /\ last = NoCall
    /\ permitted_at = Never
    /\ parse_input = <<>>
    /\ parse_output = NotParsed
    /\ proc = NoProcesses
    /\ printer = NoPrinter
    /\ loop = NoLoop
    /\ race = [NoRace EXCEPT !.before = tag_file]

\* the process has exited with this status
Exited(p, code) == [proc EXCEPT ![p].pc = "exit", ![p].code = code]

\* A faulty variant: the file is opened to append
append_to_file(text, time) == text \o format_u128(time)

\* the bytes of the file after the text of time is written from its start
write_from_start(text, time) ==
    LET new == format_u128(time)
    IN  new \o SubSeq(text, Len(new) + 1, Len(text))

\* evry() up to "get current time": the text is parsed, the clock is read
P_start(p) ==
    /\ proc[p].pc = "main"
    /\ \E cli \in RaceClis :
          LET run_every == parse_time(cli.raw_date, overflow_checks)
          IN  proc' =
                IF run_every.status = "panic"
                THEN [Exited(p, EXIT_PANIC) EXCEPT ![p].cli = cli]
                ELSE IF run_every.status = "Err"
                THEN [Exited(p, parse_failure_code) EXCEPT ![p].cli = cli]
                ELSE [proc EXCEPT ![p].pc = "file_exists", ![p].cli = cli,
                                  ![p].run_every = run_every.val,
                                  ![p].now = clock]
    /\ UNCHANGED <<tag_file, clock, overflow_checks, last, permitted_at,
                   parse_input, parse_output, race, printer, loop>>

\* if !cli.tag.file_exists()
P_file_exists(p) ==
    /\ proc[p].pc = "file_exists"
    /\ proc' =
          IF ~file_exists(tag_file)
          THEN [proc EXCEPT ![p].pc = "create", ![p].early = ~race.touched]
          ELSE [proc EXCEPT ![p].pc = "read_epoch_millis"]
    /\ UNCHANGED <<tag_file, clock, overflow_checks, last, permitted_at,
                   parse_input, parse_output, race, printer, loop>>

\* the else branch: the stored time is read and compared
P_read_epoch_millis(p) ==
    /\ proc[p].pc = "read_epoch_millis"
    /\ LET last_ran_at == read_epoch_millis(tag_file)
           elapsed == has_elapsed(proc[p].now, last_ran_at.val,
                                  proc[p].run_every, overflow_checks)
           till_next == till_next_run(proc[p].now, last_ran_at.val,
                                      proc[p].run_every, overflow_checks)
       IN  proc' =
             IF last_ran_at.panic THEN Exited(p, EXIT_PANIC)
             ELSE IF elapsed.panic THEN Exited(p, EXIT_PANIC)
             ELSE IF elapsed.val
             THEN [proc EXCEPT ![p].pc = "create", ![p].early = ~race.touched]
             ELSE IF proc[p].cli.debug /\ till_next.panic
             THEN Exited(p, EXIT_PANIC)
             ELSE [Exited(p, EXIT_WAIT) EXCEPT ![p].early = ~race.touched]
    /\ UNCHANGED <<tag_file, clock, overflow_checks, last, permitted_at,
                   parse_input, parse_output, race, printer, loop>>

\* Tag::write: File::create
P_create(p) ==
    /\ proc[p].pc = "create"
    /\ tag_file' = [exists |-> TRUE, text |-> <<>>]
    /\ race' = [race EXCEPT !.touched = TRUE]
    /\ proc' = [proc EXCEPT ![p].pc = "write"]
    /\ UNCHANGED <<clock, overflow_checks, last, permitted_at,
                   parse_input, parse_output, printer, loop>>

\* Tag::write: write!, and the writer is dropped; return Ok(0)
P_write(p) ==
    /\ proc[p].pc = "write"
    /\ tag_file' = [exists |-> TRUE,
                    text |-> write_from_start(tag_file.text, proc[p].now)]
    /\ race' = [race EXCEPT !.written = Append(@, p)]
    /\ proc' = Exited(p, EXIT_RUN)
    /\ UNCHANGED <<clock, overflow_checks, last, permitted_at,
                   parse_input, parse_output, printer, loop>>

\* time passes while the processes run
RaceTick ==
    /\ \E c \in RaceClock : BigLt(clock, c) /\ clock' = c
    /\ UNCHANGED <<tag_file, overflow_checks, last, permitted_at,
                   parse_input, parse_output, proc, race, printer, loop>>

NextRace ==
    \/ \E p \in Processes :
          \/ P_start(p)
          \/ P_file_exists(p)
          \/ P_read_epoch_millis(p)
          \/ P_create(p)
          \/ P_write(p)
    \/ RaceTick

SpecRace == InitRace /\ [][NextRace]_vars

\* ------------------------------------------------------------------------
\* Small numbers as ordinary integers, for stating the properties
\* ------------------------------------------------------------------------

RECURSIVE IntOfDigits(_, _)
IntOfDigits(b, i) ==
    IF i > Len(b) THEN 0 ELSE b[i] + LimbBase * IntOfDigits(b, i + 1)

\* the integer a digit sequence stands for
IntOf(b) == IntOfDigits(b, 1)

RECURSIVE IntOfTextUpTo(_, _)
IntOfTextUpTo(t, n) ==
    IF n = 0 THEN 0 ELSE 10 * IntOfTextUpTo(t, n - 1) + t[n]

\* the integer a decimal text writes
IntOfText(t) == IntOfTextUpTo(t, Len(t))

\* ------------------------------------------------------------------------
\* parse_time on its own: a text is drawn, parse_time is applied to it
\* ------------------------------------------------------------------------

\* the largest quantity of a term and the most terms of a text
MaxQuantity == 1

MaxTerms == 2

\* one spelling of each unit, and a plural
UnitWords ==
    {"year", "month", "week", "weeks", "day", "hour", "minute", "second"}

Terms == {<<Num(Dec(q)), Word(w)>> : q \in 0..MaxQuantity, w \in UnitWords}

RECURSIVE TextsOf(_)
\* the texts of n terms
TextsOf(n) ==
    IF n = 0 THEN {<<>>}
    ELSE {t \o term : t \in TextsOf(n - 1), term \in Terms}

\* 2 * 10^35 seconds fit a u128 in milliseconds, twice as many do not
ManySeconds ==
    <<Num(<<2, 0, 0, 0, 0, 0, 0, 0, 0, 0, 0, 0, 0, 0, 0, 0, 0, 0, 0, 0,
            0, 0, 0, 0, 0, 0, 0, 0, 0, 0, 0, 0, 0, 0, 0, 0>>), Word("secs")>>

\* texts whose total is no u128: one product too large, a sum too large,
\* and a quantity (2^128) that is no u128 itself
OverflowTexts ==
    HugeTexts
    \cup {ManySeconds \o ManySeconds}
    \cup {<<Num(format_u128(Pow2_128)), Word("d")>>}

\* texts that are not of the grammar: empty, no quantity, no unit, an
\* unknown unit, stray characters
RejectedTexts ==
    {<<>>, <<Word("weeks")>>, <<Num(Dec(5))>>,
     <<Num(Dec(5)), Word("fortnights")>>,
     <<Num(Dec(5)), Word("wk"), Junk>>}

ParseTexts ==
    UNION {TextsOf(n) : n \in 1..MaxTerms}
    \cup {ManySeconds} \cup OverflowTexts \cup RejectedTexts

InitParse ==
    /\ tag_file = NoFile
    /\ clock = <<>>
    /\ overflow_checks \in BOOLEAN
    /\ last = NoCall
    /\ permitted_at = Never
    /\ parse_input \in ParseTexts
    /\ parse_output = NotParsed
    /\ proc = NoProcesses
    /\ printer = NoPrinter
    /\ loop = NoLoop
    /\ race = NoRace

\* parse_time(parse_input)
ParseTime ==
    /\ parse_output = NotParsed
    /\ parse_output' = parse_time(parse_input, overflow_checks)
    /\ UNCHANGED <<tag_file, clock, overflow_checks, last, permitted_at,
                   parse_input, proc, race, printer, loop>>

NextParse == ParseTime

SpecParse == InitParse /\ [][NextParse]_vars

\* ------------------------------------------------------------------------
\* Properties of parse_time.  The total a text stands for is computed here
\* in whole seconds, exactly, from the table of the units.
\* ------------------------------------------------------------------------

UnitSeconds(word) ==
    CASE word \in {"year", "years"} -> 31556952
      [] word \in {"month", "months"} -> 2592000
      [] word \in {"week", "weeks", "wk", "wks"} -> 604800
      [] word \in {"day", "days", "d"} -> 86400
      [] word \in {"hour", "hours", "hr", "hrs"} -> 3600
      [] word \in {"minute", "minutes", "min", "mins"} -> 60
      [] word \in {"second", "seconds", "sec", "secs"} -> 1

RECURSIVE ExactFrom(_, _, _)
\* the number a numeral writes, of any size, given the number its digits
\* before the i-th write
ExactFrom(digits, i, number) ==
    IF i > Len(digits) THEN number
    ELSE LET next == BigAdd(BigMul(number, Big(10)), Big(digits[i]))
         IN  IF Len(next) >= 0 THEN ExactFrom(digits, i + 1, next) ELSE <<>>

ExactNumber(digits) == ExactFrom(digits, 1, <<>>)

RECURSIVE ExactSeconds(_, _)
\* the seconds of the first n terms of a text
ExactSeconds(text, n) ==
    IF n = 0 THEN <<>>
    ELSE BigAdd(ExactSeconds(text, n - 1),
                BigMul(ExactNumber(text[2 * n - 1].val),
                       Big(UnitSeconds(text[2 * n].word))))

\* the milliseconds a text of the grammar stands for
ExactMillis(text) == BigMul(ExactSeconds(text, Len(text) \div 2), Big(1000))

\* the text with its terms in the order f
Reordered(text, f) ==
    [i \in 1..Len(text) |->
        IF i % 2 = 1 THEN text[2 * f[(i + 1) \div 2] - 1]
        ELSE text[2 * f[i \div 2]]]

\* the text with terms i and j, of one unit, made one term of that unit
Merged(text, i, j) ==
    LET sum == IntOfText(text[2 * i - 1].val) + IntOfText(text[2 * j - 1].val)
        rest == SubSeq(text, 1, 2 * j - 2) \o SubSeq(text, 2 * j + 1, Len(text))
    IN  [rest EXCEPT ![2 * i - 1] = Num(Dec(sum))]

ParsedText == parse_output # NotParsed /\ TimeParser_parse_file(parse_input)

\* C8: for a text whose total is a u128, parse_time returns the sum of
\* quantity times the unit's milliseconds over the terms; the terms in any
\* other order give the same result, and so do two terms of one unit made
\* one term of their summed quantity.
C8_SumOfTerms ==
    (ParsedText /\ Fits128(ExactMillis(parse_input))) =>
        /\ parse_output = [status |-> "Ok", val |-> ExactMillis(parse_input)]
        /\ \A f \in Permutations(1..(Len(parse_input) \div 2)) :
              parse_time(Reordered(parse_input, f), overflow_checks) = parse_output
        /\ \A i, j \in 1..(Len(parse_input) \div 2) :
              (/\ i < j
               /\ Rule_singular(parse_input[2 * i].word)
                    = Rule_singular(parse_input[2 * j].word)
               /\ Len(parse_input[2 * i - 1].val) = 1
               /\ Len(parse_input[2 * j - 1].val) = 1)
              => parse_time(Merged(parse_input, i, j), overflow_checks) = parse_output

\* C8 witness: "1 week, 1 weeks" parsed to two weeks
C8_Witness ==
    /\ parse_input = <<Num(<<1>>), Word("week"), Num(<<1>>), Word("weeks")>>
    /\ parse_output = [status |-> "Ok", val |-> BigMul(Big(2), Big(604800000))]

\* C9 (as claimed): for a text of the grammar whose total is no u128,
\* parse_time returns an error: it neither returns a number nor panics.
C9_OverflowIsAnError ==
    (ParsedText /\ ~Fits128(ExactMillis(parse_input))) =>
        parse_output.status = "Err"

\* ------------------------------------------------------------------------
\* Properties of the sequential invocations.  They are stated in ordinary
\* integers: the times and durations they speak of are small.
\* ------------------------------------------------------------------------

\* the last thing that happened is a run invocation
RunCall == last.cli.command = "Run"

\* parse_time gives the last invocation's text a duration / rejects it
Parseable == parse_time(last.cli.raw_date, overflow_checks).status = "Ok"

Unparseable == parse_time(last.cli.raw_date, overflow_checks).status = "Err"

\* the time of the last invocation and the time stored in the tag before it
Now == IntOf(last.clock)

LastRun == IntOfText(last.before.text)

\* the parsed duration is less than n
ThresholdBelow(n) == BigLt(last.ret.run_every, Big(n))

\* C1: a run invocation of an existing tag, at a time not before the stored
\* one, exits 0 when the time since the stored one is strictly greater than
\* the parsed duration, and exits 2 otherwise (also when they are equal).
C1_PermitsIffStrictlyElapsed ==
    (RunCall /\ Parseable /\ last.before.exists /\ LastRun <= Now) =>
        IF ThresholdBelow(Now - LastRun)
        THEN last.ret.code = EXIT_RUN
        ELSE last.ret.code = EXIT_WAIT

\* C1 witness: a run exactly one non-zero duration after the stored time
C1_Witness ==
    /\ RunCall /\ Parseable /\ last.before.exists
    /\ Now > LastRun
    /\ last.ret.run_every = Big(Now - LastRun)
    /\ last.ret.code = EXIT_WAIT

\* C2: a run invocation with a parseable duration on a tag that does not
\* exist is a FirstRun and exits 0, whatever the time and the duration.
C2_AbsentTagIsFirstRun ==
    (RunCall /\ Parseable /\ ~last.before.exists) =>
        last.ret.outcome = "FirstRun" /\ last.ret.code = EXIT_RUN

\* C2 witness: a first run with a duration longer than the time now
C2_Witness ==
    /\ RunCall /\ ~last.before.exists
    /\ last.ret.outcome = "FirstRun"
    /\ ~ThresholdBelow(Now + 1)

\* C3: after a run invocation that exits 0 the tag file exists and holds
\* the time that invocation read, and the invocation wrote it.
C3_PermittedRunStoresNow ==
    (RunCall /\ last.ret.code = EXIT_RUN) =>
        /\ last.ret.outcome \in {"FirstRun", "Elapsed"}
        /\ last.ret.now = last.clock
        /\ tag_file.exists
        /\ tag_file.text # <<>>
        /\ \A i \in 1..Len(tag_file.text) : tag_file.text[i] \in 0..9
        /\ IntOfText(tag_file.text) = Now
        /\ last.ret.calls[Len(last.ret.calls)] = "write"

\* C3 witness: a permitted run over an older stored time
C3_Witness ==
    /\ RunCall /\ last.ret.outcome = "Elapsed"
    /\ last.before.exists /\ LastRun < Now
    /\ IntOfText(tag_file.text) = Now

\* C4: a run invocation that exits 2 leaves the tag file as it was, and the
\* file still holds the time of the last permitted run.
C4_WaitLeavesTag ==
    (RunCall /\ last.ret.code = EXIT_WAIT) =>
        /\ last.ret.outcome = "NotElapsed"
        /\ tag_file = last.before
        /\ tag_file.exists
        /\ permitted_at.some
        /\ IntOfText(tag_file.text) = IntOf(permitted_at.now)

\* C4 witness: a wait some time after the permitted run
C4_Witness ==
    /\ RunCall /\ last.ret.code = EXIT_WAIT
    /\ permitted_at.some
    /\ IntOf(permitted_at.now) < Now

\* C5: under a clock that never goes back, a permitted run that follows a
\* permitted run reads a time that is more than its duration after the
\* time the earlier one read.
C5_PermittedRunsApart ==
    [][(last'.cli.command = "Run" /\ last'.ret.code = EXIT_RUN /\ permitted_at.some)
        => (/\ IntOf(permitted_at.now) <= IntOf(last'.ret.now)
            /\ BigLt(last'.ret.run_every,
                     Big(IntOf(last'.ret.now) - IntOf(permitted_at.now))))]_vars

\* C5 witness: a second permitted run, with a non-zero duration
C5_Witness ==
    /\ RunCall /\ last.ret.outcome = "Elapsed"
    /\ last.ret.run_every # <<>>

\* C6 (as claimed): a run invocation at a time before the stored one exits 2,
\* leaves the tag file alone and reports a remaining time no longer than the
\* duration plus the time the clock went back.
C6_BackwardClockWaits ==
    (RunCall /\ Parseable /\ last.before.exists /\ Now < LastRun) =>
        /\ last.ret.code = EXIT_WAIT
        /\ tag_file = last.before
        /\ BigLe(last.ret.till_next,
                 BigAdd(last.ret.run_every, Big(LastRun - Now)))

\* C7: a run invocation whose text parse_time rejects exits 1, which is
\* neither 0 nor 2, and leaves the tag file as it was.
C7_ParseFailureExitsOne ==
    (RunCall /\ Unparseable) =>
        /\ last.ret.code = EXIT_PARSE_ERROR
        /\ last.ret.code \notin {EXIT_RUN, EXIT_WAIT}
        /\ tag_file = last.before

\* C7 witness: a rejected text on a tag that does not exist
C7_Witness ==
    /\ RunCall /\ Unparseable
    /\ ~last.before.exists /\ ~tag_file.exists
    /\ last.ret.code = EXIT_PARSE_ERROR

\* C10: a duration command calls parse_time and nothing else (no tag file,
\* no clock), leaves the tag file as it was, and exits 0 on a text that
\* parses and 1 on a text that does not; a location command exits 0 with no
\* call at all and leaves the tag file as it was.
C10_DurationAndLocationArePure ==
    /\ last.cli.command = "Duration" =>
          /\ last.ret.calls = <<"parse_time">>
          /\ tag_file = last.before
          /\ Parseable => last.ret.code = EXIT_RUN
          /\ Unparseable => last.ret.code = EXIT_PARSE_ERROR
    /\ last.cli.command = "Location" =>
          /\ last.ret.calls = <<>>
          /\ tag_file = last.before
          /\ last.ret.code = EXIT_RUN

\* C10 witness: a duration command with a text that parses, on an existing
\* tag
C10_Witness ==
    /\ last.cli.command = "Duration"
    /\ Parseable
    /\ last.before.exists
    /\ last.ret.code = EXIT_RUN

\* the last invocation printed the time till the next run (it does so with
\* --debug only)
Reported == last.ret.outcome = "NotElapsed" /\ last.ret.printed = "till_next"

Threshold == IntOf(last.ret.run_every)

Remaining == IntOf(last.ret.till_next)

\* C11: the remaining time a run invocation reports in the NotElapsed
\* outcome is the stored time plus the duration minus the time now; when the
\* time now is not before the stored one it lies between 0 and the duration,
\* and it is 0 exactly when the time since the stored one equals the
\* duration, where the invocation still exits 2.
C11_RemainingTime ==
    /\ (RunCall /\ Reported) =>
          /\ Remaining = LastRun + Threshold - Now
          /\ LastRun <= Now =>
                /\ 0 <= Remaining /\ Remaining <= Threshold
                /\ Remaining = 0 <=> Now - LastRun = Threshold
    /\ (RunCall /\ Parseable /\ last.cli.debug /\ last.before.exists
          /\ LastRun <= Now /\ last.ret.run_every = Big(Now - LastRun)) =>
          /\ Reported
          /\ last.ret.code = EXIT_WAIT
          /\ Remaining = 0

\* C11 witness: a remaining time of 0 is reported, a non-zero duration
\* after the stored time
C11_Witness ==
    /\ RunCall /\ Reported
    /\ LastRun < Now
    /\ Remaining = 0 /\ Threshold = Now - LastRun
    /\ last.ret.code = EXIT_WAIT

\* both processes have exited
BothExited == \A p \in Processes : proc[p].pc = "exit"

\* both processes ran with a text that parses
BothParsed ==
    \A p \in Processes :
        parse_time(proc[p].cli.raw_date, overflow_checks).status = "Ok"

\* both processes looked at the tag file before either began to write
BothEarly == \A p \in Processes : proc[p].early

\* as the tag file was at the start, every process was due: the tag was
\* absent, or the time since the stored one was more than the duration
BothDue ==
    \A p \in Processes :
        \/ ~race.before.exists
        \/ /\ IntOfText(race.before.text) <= IntOf(proc[p].now)
           /\ BigLt(proc[p].run_every,
                    Big(IntOf(proc[p].now) - IntOfText(race.before.text)))

LastWriter == race.written[Len(race.written)]

\* C12: two processes run on one tag that is absent, or present with the
\* duration elapsed; when both have looked at the tag file (its existence,
\* or the stored time) before either began to write, both exit 0, both have
\* written, and the tag file holds the time read by the one that wrote last.
C12_RacePermitsBoth ==
    (BothExited /\ BothParsed /\ BothDue /\ BothEarly) =>
        /\ \A p \in Processes : proc[p].code = EXIT_RUN
        /\ Len(race.written) = 2
        /\ tag_file.exists
        /\ IntOfText(tag_file.text) = IntOf(proc[LastWriter].now)

\* C12 witness: such a race on an existing tag; the two processes read
\* times 1 ms apart, within one duration, and the one that read the earlier
\* time wrote last
C12_Witness ==
    /\ BothExited /\ BothParsed /\ BothDue /\ BothEarly
    /\ race.before.exists
    /\ \A p \in Processes : proc[p].code = EXIT_RUN
    /\ proc[1].now # proc[2].now
    /\ \A p, q \in Processes :
          BigLe(proc[p].now, BigAdd(proc[q].now, proc[p].run_every))
    /\ \E p \in Processes :
          /\ LastWriter = p
          /\ BigLt(proc[p].now, proc[3 - p].now)
          /\ IntOfText(tag_file.text) = IntOf(proc[p].now)

\* the messages, of the first n calls made, whose filter is None or the
\* type given
RECURSIVE AcceptedBy(_, _)

AcceptedBy(ptype, n) ==
    IF n = 0 THEN <<>>
    ELSE LET call == printer.calls[n]
         IN  IF call.only = None \/ call.only = Some(ptype)
             THEN Append(AcceptedBy(ptype, n - 1), call.message)
             ELSE AcceptedBy(ptype, n - 1)

Accepted == AcceptedBy(printer.printer_type, Len(printer.calls))

\* C13: after any print and echo calls a Json printer holds the messages
\* whose filter is None or Json, in the order of the calls, and none of those
\* filtered to Stderr, and has sent nothing to stderr; a Stderr printer holds
\* no message and has sent to stderr the messages whose filter is None or
\* Stderr, in the order of the calls.
C13_PrinterStoresAccepted ==
    /\ printer.printer_type = "Json" =>
          /\ printer.messages = Accepted
          /\ printer.stderr = <<>>
    /\ printer.printer_type = "Stderr" =>
          /\ printer.messages = <<>>
          /\ printer.stderr =
                [i \in 1..Len(Accepted) |->
                    <<Accepted[i].type, ":", Accepted[i].body>>]

\* C13 witness: the calls of test_json_serialize on a Json printer, flushed:
\* the three messages not filtered to Stderr are stored and serialized
C13_Witness ==
    /\ printer.printer_type = "Json"
    /\ Len(printer.calls) = 4
    /\ printer.calls[1].only = None
    /\ printer.calls[2].only = Some("Json")
    /\ printer.calls[3].only = Some("Json")
    /\ printer.calls[4].only = Some("Stderr")
    /\ printer.messages = <<printer.calls[1].message, printer.calls[2].message,
                            printer.calls[3].message>>
    /\ Len(printer.stdout) = 1
    /\ Len(printer.stdout[1]) = 3

\* the time stored in the tag file, now and after the step
Stored == IntOfText(tag_file.text)

StoredNext == IntOfText(tag_file'.text)

\* C14: under a clock that never goes back, over invocations of every
\* kind: a tag file that exists is not removed and the time stored in it
\* does not decrease; a tag file exists exactly when a run has been
\* permitted, and the time stored in it is the time the last permitted run
\* read, which is not after the time now.
C14_StoredTimeMonotone ==
    [][/\ tag_file.exists =>
            /\ tag_file'.exists
            /\ Stored <= StoredNext
       /\ tag_file'.exists <=> permitted_at'.some
       /\ tag_file'.exists =>
            /\ StoredNext = IntOf(permitted_at'.now)
            /\ StoredNext <= IntOf(clock')]_vars

\* C14 witness: some time after a permitted run, a duration command has
\* left the tag file with the time that run read
C14_Witness ==
    /\ last.cli.command = "Duration"
    /\ last.before.exists /\ tag_file = last.before
    /\ permitted_at.some
    /\ Stored > 0
    /\ Stored = IntOf(permitted_at.now)
    /\ Stored < IntOf(clock)

\* the last value of the clock in the model
LastClock == MaxSeconds * 1000 + 1

\* the loop's call of evry has just exited 2, and the clock of the model has
\* a value at which the duration has elapsed
Waiting ==
    /\ RunCall /\ last.ret.code = EXIT_WAIT
    /\ LastRun + IntOf(last.ret.run_every) < LastClock

\* the loop's call of evry has just exited 0
Permitted == RunCall /\ last.ret.code = EXIT_RUN

\* C15: in the loop, with one duration text that parses and a clock that
\* has moved on at every call, a call that exits 2 is followed, some calls
\* later, by a call that exits 0.
C15_WaitLeadsToRun == Waiting ~> Permitted

\* C15 witness: a call exits 0 after a call of the loop had to wait
C15_Witness ==
    /\ Permitted
    /\ loop.after_wait
    /\ last.ret.outcome = "Elapsed"
    /\ last.ret.run_every # <<>>

====
